---- MODULE Spec2Model ----
(***************************************************************************)
(* Model of wikipedia_tool: the wikitext parsers of parsers.py             *)
(* (parse_sections, parse_infobox, parse_templates, clean_wikitext) and    *)
(* the retry decorator of utils.py.                                        *)
(*                                                                         *)
(* A Python str is a sequence of one-character strings.  Offsets (start,   *)
(* end, last_index, start_index) are Python's 0-based offsets: the         *)
(* character at offset i is s[i + 1].                                      *)
(***************************************************************************)
EXTENDS Integers, Sequences, FiniteSets, TLC

VARIABLES
    pc,            \* position of the running call
    wikitext,      \* the argument of the parser being run
    headings,      \* parse_sections: list(heading_pattern.finditer(wikitext))
    hidx,          \* parse_sections: number of headings the for loop has handled
    stack,         \* parse_sections: stack of (level, section)
    last_index,    \* parse_sections: last_index
    nodes,         \* parse_sections: every Section object created, in creation order
    created,       \* history: created[i] = the Section made for headings[i]
    result,        \* return value of parse_infobox / parse_templates / clean_wikitext / wrapper
    max_attempts,  \* retry: max_attempts
    delay,         \* retry: delay
    backoff,       \* retry: backoff
    attempts,      \* retry.wrapper: attempts
    current_delay, \* retry.wrapper: current_delay
    trace          \* history: invocations of func and sleeps of one wrapper call

vars == <<pc, wikitext, headings, hidx, stack, last_index, nodes, created,
          result, max_attempts, delay, backoff, attempts, current_delay, trace>>

sectionVars == <<headings, hidx, stack, last_index, nodes, created>>
retryVars == <<max_attempts, delay, backoff, attempts, current_delay, trace>>

----------------------------------------------------------------------------
(* Bounds of the model *)

\* parse_sections: number of lines of a generated document
MaxLines == 4
\* parse_templates: number of characters of a generated text
MaxTplLen == 5
\* parse_infobox: number of parameter lines of a generated infobox
MaxParams == 3
\* clean_wikitext: number of tokens of a generated text
MaxTokens == 4
\* retry: largest max_attempts of a generated decorator
MaxAttempts == 3

----------------------------------------------------------------------------
(* Strings *)

Min(S) == CHOOSE x \in S : \A y \in S : x <= y
Max(S) == CHOOSE x \in S : \A y \in S : x >= y

\* str.isspace / the class \s of re, on one character
IsSpace(c) == c \in {" ", "\t", "\n", "\r", "\f"}

UpperCase == <<"A", "B", "C", "D", "E", "F", "G", "H", "I", "J", "K", "L", "M", "N", "O", "P", "Q", "R", "S", "T", "U", "V", "W", "X", "Y", "Z">>
LowerCase == <<"a", "b", "c", "d", "e", "f", "g", "h", "i", "j", "k", "l", "m", "n", "o", "p", "q", "r", "s", "t", "u", "v", "w", "x", "y", "z">>
Digits == {"0", "1", "2", "3", "4", "5", "6", "7", "8", "9"}

\* the class \w of re, on one character
IsWord(c) ==
    \/ \E i \in 1..26 : c = UpperCase[i] \/ c = LowerCase[i]
    \/ c \in Digits
    \/ c = "_"

\* str.lower on one character (re.IGNORECASE compares case-folded characters)
Lower(c) ==
    IF \E i \in 1..26 : c = UpperCase[i]
    THEN LowerCase[CHOOSE i \in 1..26 : c = UpperCase[i]]
    ELSE c

\* s[i:j] for 0 <= i, j <= len(s)
Slice(s, i, j) == IF j <= i THEN << >> ELSE SubSeq(s, i + 1, j)

\* character classes of the patterns: \s, \w, =, . (without DOTALL), [^\]],
\* [^\]|]
InClass(c, cls) ==
    CASE cls = "space"  -> IsSpace(c)
      [] cls = "word"   -> IsWord(c)
      [] cls = "eq"     -> c = "="
      [] cls = "dot"    -> c # "\n"
      [] cls = "nobr"   -> c # "]"
      [] cls = "nobrbar" -> c \notin {"]", "|"}

\* the number of leading characters of s[i:] that are in the class
RECURSIVE Run(_, _, _)
Run(s, i, cls) ==
    IF i < Len(s) /\ InClass(s[i + 1], cls) THEN 1 + Run(s, i + 1, cls) ELSE 0

\* the number of trailing whitespace characters of s
RECURSIVE TrailSpace(_)
TrailSpace(s) ==
    IF Len(s) > 0 /\ IsSpace(s[Len(s)]) THEN 1 + TrailSpace(SubSeq(s, 1, Len(s) - 1)) ELSE 0

\* str.strip()
StripOne(s) ==
    LET lead == IF Len(s) > 0 /\ IsSpace(s[1]) THEN 1 ELSE 0
        trail == IF Len(s) > lead /\ IsSpace(s[Len(s)]) THEN 1 ELSE 0
    IN  Slice(s, lead, Len(s) - trail)
Strip(s) ==
    LET lead == Run(s, 0, "space")
    IN  IF lead = Len(s) THEN << >> ELSE Slice(s, lead, Len(s) - TrailSpace(s))

\* s.startswith(lit, i)
StartsWith(s, i, lit) ==
    /\ i + Len(lit) <= Len(s)
    /\ \A k \in 1..Len(lit) : s[i + k] = lit[k]

\* s.lower().startswith(lit.lower(), i)
StartsWithFold(s, i, lit) ==
    /\ i + Len(lit) <= Len(s)
    /\ \A k \in 1..Len(lit) : Lower(s[i + k]) = Lower(lit[k])

\* "\n".join(lines)
RECURSIVE Join(_)
Join(lines) ==
    IF lines = << >> THEN << >>
    ELSE IF Len(lines) = 1 THEN lines[1]
    ELSE lines[1] \o <<"\n">> \o Join(Tail(lines))

\* "".join(parts)
RECURSIVE Concat(_)
Concat(parts) ==
    IF parts = << >> THEN << >> ELSE parts[1] \o Concat(Tail(parts))

\* all sequences over S of length lo..hi
SeqsOf(S, lo, hi) == UNION {[1..n -> S] : n \in lo..hi}

----------------------------------------------------------------------------
(* heading_pattern = ^(={2,6})\s*(.*?)\s*\1\s*$  with re.MULTILINE *)

\* ^ in MULTILINE mode at offset i
AtLineStart(s, i) == i = 0 \/ s[i] = "\n"

\* $ in MULTILINE mode at offset i
AtLineEnd(s, i) == i = Len(s) \/ s[i + 1] = "\n"

\* \1\s*$ at offset i, group 1 being n equal signs
HeadingClose(s, i, n) ==
    /\ i + n <= Len(s)
    /\ \A k \in 1..n : s[i + k] = "="
    /\ \E k3 \in 0..Run(s, i + n, "space") : AtLineEnd(s, i + n + k3)

\* (.*?)\s*\1\s*$ at offset a
HeadingBody(s, a, n) ==
    \E t \in 0..Run(s, a, "dot") :
        \E k2 \in 0..Run(s, a + t, "space") : HeadingClose(s, a + t + k2, n)

\* \s*(.*?)\s*\1\s*$ at offset a
HeadingAfterOpen(s, a, n) ==
    \E k1 \in 0..Run(s, a, "space") : HeadingBody(s, a + k1, n)

\* the lengths group 1 (={2,6}) may take at offset p: the greedy quantifier
\* gives back characters down to its minimum of 2
PossessiveOpenRuns(s, p) ==
    LET r == Run(s, p, "eq") IN IF r >= 2 THEN {IF r > 6 THEN 6 ELSE r} ELSE {}
HeadingOpenRuns(s, p) ==
    LET r == Run(s, p, "eq") IN 2..(IF r > 6 THEN 6 ELSE r)

\* heading_pattern.match at offset p succeeds
HeadingMatches(s, p) ==
    /\ AtLineStart(s, p)
    /\ \E n \in HeadingOpenRuns(s, p) : HeadingAfterOpen(s, p + n, n)

\* the match object of heading_pattern at offset p: the first success in
\* backtracking order (greedy group 1, greedy \s*, lazy title, greedy \s*)
HeadingMatch(s, p) ==
    LET n  == Max({m \in HeadingOpenRuns(s, p) : HeadingAfterOpen(s, p + m, m)})
        k1 == Max({k \in 0..Run(s, p + n, "space") : HeadingBody(s, p + n + k, n)})
        a  == p + n + k1
        t  == Min({u \in 0..Run(s, a, "dot") :
                     \E k \in 0..Run(s, a + u, "space") : HeadingClose(s, a + u + k, n)})
        k2 == Max({k \in 0..Run(s, a + t, "space") : HeadingClose(s, a + t + k, n)})
        c  == a + t + k2 + n
        k3 == Max({k \in 0..Run(s, c, "space") : AtLineEnd(s, c + k)})
    IN  [level |-> n, title |-> Slice(s, a, a + t), start |-> p, end |-> c + k3]

\* list(heading_pattern.finditer(s)), the scan being at offset pos
RECURSIVE HeadingsFrom(_, _)
HeadingsFrom(s, pos) ==
    IF pos > Len(s) THEN << >>
    ELSE IF HeadingMatches(s, pos)
         THEN LET m == HeadingMatch(s, pos)
              IN  <<m>> \o HeadingsFrom(s, IF m.end > pos THEN m.end ELSE pos + 1)
         ELSE HeadingsFrom(s, pos + 1)

heading_pattern(s) == HeadingsFrom(s, 0)

----------------------------------------------------------------------------
(* class Section and parse_sections *)

Introduction == <<"I", "n", "t", "r", "o", "d", "u", "c", "t", "i", "o", "n">>

\* Section(title, content): subsections is the list of the objects whose
\* parent is this one, in creation order (every list is only appended to);
\* parent = 0 is membership of the returned list `sections`;
\* start_index = -1 is the attribute being absent
Section(title, content, parent) ==
    [title |-> title, content |-> content, parent |-> parent, start_index |-> -1]

\* the Section objects of a list, as indices into nodes, in list order
RECURSIVE ChildrenFrom(_, _, _)
ChildrenFrom(ns, parent, i) ==
    IF i > Len(ns) THEN << >>
    ELSE (IF ns[i].parent = parent THEN <<i>> ELSE << >>) \o ChildrenFrom(ns, parent, i + 1)

subsections(ns, id) == ChildrenFrom(ns, id, 1)
sections(ns) == ChildrenFrom(ns, 0, 1)

\* line 49: if last_index < start_index
GapAlways(last, start) == last <= start
HasGap(last, start) == last < start

\* line 57: stack[-1][0] >= level
ClosesDeeperOnly(entry_level, level) == entry_level > level
Closes(entry_level, level) == entry_level >= level

\* line 59: wikitext[sec.start_index:match.start()].strip()
ClosedContentToHeadingEnd(s, start_index, match) == Strip(Slice(s, start_index, match.end))
ClosedContent(s, start_index, match) == Strip(Slice(s, start_index, match.start))

\* lines 57-59: the stack after the pops of one heading
PopOnce(st, level) ==
    IF st # << >> /\ Closes(st[Len(st)][1], level)
    THEN SubSeq(st, 1, Len(st) - 1)
    ELSE st
RECURSIVE PopStack(_, _)
PopStack(st, level) ==
    IF st # << >> /\ Closes(st[Len(st)][1], level)
    THEN PopStack(SubSeq(st, 1, Len(st) - 1), level)
    ELSE st

\* lines 57-59: the objects after the pops of one heading
PopNodes(ns, st, match) ==
    LET kept == PopStack(st, match.level)
        popped == {st[k][2] : k \in (Len(kept) + 1)..Len(st)}
    IN  [i \in 1..Len(ns) |->
            IF i \in popped
            THEN [ns[i] EXCEPT !.content = ClosedContent(wikitext, ns[i].start_index, match)]
            ELSE ns[i]]

\* lines 36-43
Scan ==
    /\ pc = "parse_sections"
    /\ headings' = heading_pattern(wikitext)
    /\ IF headings' = << >>
       THEN /\ nodes' = <<Section(Introduction, Strip(wikitext), 0)>>
            /\ pc' = "done"
       ELSE /\ nodes' = << >>
            /\ pc' = "loop"
    /\ stack' = << >>
    /\ last_index' = 0
    /\ UNCHANGED <<wikitext, hidx, created, result>>
    /\ UNCHANGED retryVars

\* lines 45-65: one iteration of the for loop
Heading ==
    /\ pc = "loop"
    /\ hidx < Len(headings)
    /\ LET match == headings[hidx + 1]
           top == IF stack = << >> THEN 0 ELSE stack[Len(stack)][2]
           withGap ==
               IF HasGap(last_index, match.start)
               THEN Append(nodes,
                        Section(IF stack # << >> THEN << >> ELSE Introduction,
                                Strip(Slice(wikitext, last_index, match.start)), top))
               ELSE nodes
           id == Len(withGap) + 1
           kept == PopStack(stack, match.level)
           closed == PopNodes(withGap, stack, match)
           parent == IF kept # << >> THEN kept[Len(kept)][2] ELSE 0
           current_section == [Section(match.title, << >>, parent) EXCEPT !.start_index = match.end]
       IN  /\ nodes' = Append(closed, current_section)
           /\ stack' = Append(kept, <<match.level, id>>)
           /\ created' = Append(created, id)
           /\ last_index' = match.end
    /\ hidx' = hidx + 1
    /\ UNCHANGED <<pc, wikitext, headings, result>>
    /\ UNCHANGED retryVars

\* lines 66-75: after the loop
Trailing ==
    /\ pc = "loop"
    /\ hidx = Len(headings)
    /\ LET onStack == {stack[k][2] : k \in 1..Len(stack)}
           remaining == Strip(Slice(wikitext, last_index, Len(wikitext)))
           top == IF stack = << >> THEN 0 ELSE stack[Len(stack)][2]
           appended ==
               IF last_index < Len(wikitext)
               THEN IF stack # << >>
                    THEN [nodes EXCEPT ![top].content = @ \o <<"\n">> \o remaining]
                    ELSE Append(nodes, Section(Introduction, remaining, 0))
               ELSE nodes
       IN  nodes' = [i \in 1..Len(appended) |->
                        IF i \in onStack THEN [appended[i] EXCEPT !.start_index = -1]
                        ELSE appended[i]]
    /\ pc' = "done"
    /\ UNCHANGED <<wikitext, headings, hidx, stack, last_index, created, result>>
    /\ UNCHANGED retryVars

\* the lines of the generated documents
LineText == <<"x">>
LineBlank == << >>
LineH2 == <<"=", "=", " ", "A", " ", "=", "=">>
LineH3 == <<"=", "=", "=", "B", "=", "=", "=">>
LineH4 == <<"=", "=", "=", "=", "C", "=", "=", "=", "=">>
LineUneven == <<"=", "=", "=", "D", "=", "=">>
Lines == {LineText, LineBlank, LineH2, LineH3, LineH4, LineUneven}

\* the example document of the specification
ExampleDoc == Join(<<<<"i", "n", "t", "r", "o">>,
                     <<"=", "=", " ", "A", " ", "=", "=">>,
                     <<"t", "e", "x", "t", "A">>,
                     <<"=", "=", "=", " ", "B", " ", "=", "=", "=">>,
                     <<"t", "e", "x", "t", "B">>,
                     <<"=", "=", " ", "C", " ", "=", "=">>,
                     <<"t", "e", "x", "t", "C">>>>)

Docs == {Join(ls) : ls \in SeqsOf(Lines, 0, MaxLines)} \cup {ExampleDoc}

NoRetry ==
    /\ max_attempts = 0
    /\ delay = 0
    /\ backoff = 0
    /\ attempts = 0
    /\ current_delay = 0
    /\ trace = << >>

NoSections ==
    /\ headings = << >>
    /\ hidx = 0
    /\ stack = << >>
    /\ last_index = 0
    /\ nodes = << >>
    /\ created = << >>

InitSections ==
    /\ pc = "parse_sections"
    /\ wikitext \in Docs
    /\ result = << >>
    /\ NoSections
    /\ NoRetry

NextSections == Scan \/ Heading \/ Trailing

SpecSections == InitSections /\ [][NextSections]_vars

----------------------------------------------------------------------------
(* Properties of parse_sections *)

\* the returned forest below a parent: title, content and subsections of each
\* Section, in list order
RECURSIVE TreeOf(_, _)
TreeOf(ns, parent) ==
    LET kids == ChildrenFrom(ns, parent, 1)
    IN  [k \in 1..Len(kids) |->
            [title |-> ns[kids[k]].title,
             content |-> ns[kids[k]].content,
             subsections |-> TreeOf(ns, kids[k])]]

Leaf(title, content) == [title |-> title, content |-> content, subsections |-> << >>]

\* the first later handled heading that closes heading i (0: still open)
Closer(i) ==
    LET later == {j \in (i + 1)..hidx : headings[j].level <= headings[i].level}
    IN  IF later = {} THEN 0 ELSE Min(later)

\* the nearest preceding heading with a strictly smaller level (0: none)
NearestShallower(i) ==
    LET before == {j \in 1..(i - 1) : headings[j].level < headings[i].level}
    IN  IF before = {} THEN 0 ELSE Max(before)

\* C1 (as claimed): the example document parses to Introduction("intro"),
\* A("textA", [B("textB")]), C("textC")
C1_AsClaimed ==
    (pc = "done" /\ wikitext = ExampleDoc) =>
        TreeOf(nodes, 0) =
            <<Leaf(Introduction, <<"i", "n", "t", "r", "o">>),
              [title |-> <<"A">>, content |-> <<"t", "e", "x", "t", "A">>,
               subsections |-> <<Leaf(<<"B">>, <<"t", "e", "x", "t", "B">>)>>],
              Leaf(<<"C">>, <<"t", "e", "x", "t", "C">>)>>

\* C1 (amended): the example document parses to three top-level sections:
\* Introduction("intro"); A, whose content is the raw text up to "== C =="
\* (sub-heading included) and whose subsections are the fragment ""("textA")
\* and B("textB") with its own fragment ""("textB"); C with content
\* "\ntextC" and no subsections
C1_ExampleParse ==
    (pc = "done" /\ wikitext = ExampleDoc) =>
        TreeOf(nodes, 0) =
            <<Leaf(Introduction, <<"i", "n", "t", "r", "o">>),
              [title |-> <<"A">>, content |-> <<"t", "e", "x", "t", "A", "\n", "=", "=", "=", " ", "B", " ", "=", "=", "=", "\n", "t", "e", "x", "t", "B">>,
               subsections |->
                   <<Leaf(<< >>, <<"t", "e", "x", "t", "A">>),
                     [title |-> <<"B">>, content |-> <<"t", "e", "x", "t", "B">>,
                      subsections |-> <<Leaf(<< >>, <<"t", "e", "x", "t", "B">>)>>]>>],
              Leaf(<<"C">>, <<"\n", "t", "e", "x", "t", "C">>)>>

C1_Witness == pc = "done" /\ wikitext = ExampleDoc /\ Len(headings) = 3

\* C4 (as claimed): at the end of the document every section whose heading is
\* still open has as content the trimmed text from the end of its heading to
\* the end of the document
C4_OpenContentToEnd ==
    pc = "done" =>
        \A i \in 1..Len(headings) :
            Closer(i) = 0 =>
                nodes[created[i]].content =
                    Strip(Slice(wikitext, headings[i].end, Len(wikitext)))

\* the line of s that starts at offset p
LineAt(s, p) == Slice(s, p, p + Run(s, p, "dot"))

\* the number of trailing equal signs of a line
RECURSIVE TrailEq(_)
TrailEq(line) ==
    IF Len(line) > 0 /\ line[Len(line)] = "="
    THEN 1 + TrailEq(SubSeq(line, 1, Len(line) - 1)) ELSE 0

\* a line that opens and closes with runs of '=' of different lengths
Uneven(line) ==
    /\ Run(line, 0, "eq") >= 1
    /\ TrailEq(line) >= 1
    /\ Run(line, 0, "eq") < Len(line)
    /\ Run(line, 0, "eq") # TrailEq(line)

LineStarts(s) == {p \in 0..Len(s) : AtLineStart(s, p)}

C7_AttachToNearestShallower ==
    pc \in {"loop", "done"} =>
        /\ \A i \in 1..hidx :
               nodes[created[i]].parent =
                   (IF NearestShallower(i) = 0 THEN 0 ELSE created[NearestShallower(i)])
        /\ LET open == SelectSeq([i \in 1..hidx |-> i], LAMBDA i : Closer(i) = 0)
           IN  stack = [k \in 1..Len(open) |-> <<headings[open[k]].level, created[open[k]]>>]

C7_Witness ==
    /\ pc = "done"
    /\ \E i \in 1..hidx :
           /\ NearestShallower(i) # 0
           /\ NearestShallower(i) < i - 2
           /\ nodes[created[i]].parent = created[NearestShallower(i)]

\* C8: a section closed by a later heading has as content the trimmed text
\* from the end of its own heading to the start of the closing heading
C8_ClosedContent ==
    pc \in {"loop", "done"} =>
        \A i \in 1..hidx :
            Closer(i) # 0 =>
                nodes[created[i]].content =
                    Strip(Slice(wikitext, headings[i].end, headings[Closer(i)].start))

C8_Witness ==
    /\ pc = "done"
    /\ \E i \in 1..hidx :
           /\ Closer(i) > i + 1
           /\ nodes[created[i]].content =
                  Strip(Slice(wikitext, headings[i].end, headings[Closer(i)].start))
           /\ Len(nodes[created[i]].content) > Len(headings[i + 1].title)

\* C9: handling a heading whose start lies after the previous position adds
\* one fragment with the trimmed text in between, created before the
\* heading's section and attached to the section that was innermost before
\* any pop (title "") or to the top level (title "Introduction"); a heading
\* that starts at the previous position adds no fragment
C9_Fragment ==
    [][(pc = "loop" /\ hidx' = hidx + 1) =>
          LET match == headings[hidx + 1]
              prev == IF hidx = 0 THEN 0 ELSE headings[hidx].end
              n == Len(nodes)
          IN  IF prev < match.start
              THEN /\ Len(nodes') = n + 2
                   /\ created'[hidx + 1] = n + 2
                   /\ nodes'[n + 1].content = Strip(Slice(wikitext, prev, match.start))
                   /\ nodes'[n + 1].start_index = -1
                   /\ IF stack # << >>
                      THEN /\ nodes'[n + 1].title = << >>
                           /\ nodes'[n + 1].parent = stack[Len(stack)][2]
                      ELSE /\ nodes'[n + 1].title = Introduction
                           /\ nodes'[n + 1].parent = 0
              ELSE /\ Len(nodes') = n + 1
                   /\ created'[hidx + 1] = n + 1]_vars

C9_Witness ==
    /\ pc = "done"
    /\ Len(headings) >= 2
    /\ headings[1].start = 0
    /\ created[1] = 1
    /\ \E i \in 1..Len(nodes) : nodes[i].title = << >> /\ nodes[i].parent # 0
                                  /\ nodes[i].content # << >>

----------------------------------------------------------------------------
(* The patterns of parse_templates, clean_wikitext and parse_infobox.  A    *)
(* match is [ok, end, group, repl]: whether the pattern matches at the      *)
(* offset, the end of the match, the captured group and the replacement     *)
(* text of re.sub.                                                          *)

NoMatch == [ok |-> FALSE, end |-> 0, group |-> << >>, repl |-> << >>]

\* the offsets from a on where the literal lit occurs
Occurrences(s, a, lit) == {e \in a..Len(s) : StartsWith(s, e, lit)}

\* (.*?) followed by a literal: the lazy quantifier stops at the first
\* occurrence
GreedyEnd(ends) == Max(ends)
LazyEnd(ends) == Min(ends)

\* \{\{(.*?)\}\} with re.DOTALL (lines 135 and 171)
template_pattern(s, p) ==
    LET ends == Occurrences(s, p + 2, <<"}", "}">>)
    IN  IF StartsWith(s, p, <<"{", "{">>) /\ ends # {}
        THEN [ok |-> TRUE, end |-> LazyEnd(ends) + 2,
              group |-> Slice(s, p + 2, LazyEnd(ends)), repl |-> << >>]
        ELSE NoMatch

\* \[\[File:[^\]]+\]\] with re.IGNORECASE (line 136)
file_pattern(s, p) ==
    LET a == p + 7
        r == Run(s, a, "nobr")
    IN  IF /\ StartsWithFold(s, p, <<"[", "[", "F", "i", "l", "e", ":">>)
           /\ r >= 1
           /\ StartsWith(s, a + r, <<"]", "]">>)
        THEN [ok |-> TRUE, end |-> a + r + 2, group |-> << >>, repl |-> << >>]
        ELSE NoMatch

\* \[\[(?:[^\]|]+\|)?([^\]]+)\]\] (line 137): the optional target part is
\* tried first, then the pattern without it
link_text_pattern(s, p) ==
    LET a == p + 2
        u == Run(s, a, "nobrbar")
        b == a + u + 1
        rb == Run(s, b, "nobr")
        ra == Run(s, a, "nobr")
    IN  IF ~StartsWith(s, p, <<"[", "[">>) THEN NoMatch
        ELSE IF /\ u >= 1
                /\ StartsWith(s, a + u, <<"|">>)
                /\ rb >= 1
                /\ StartsWith(s, b + rb, <<"]", "]">>)
        THEN [ok |-> TRUE, end |-> b + rb + 2,
              group |-> Slice(s, b, b + rb), repl |-> Slice(s, b, b + rb)]
        ELSE IF ra >= 1 /\ StartsWith(s, a + ra, <<"]", "]">>)
        THEN [ok |-> TRUE, end |-> a + ra + 2,
              group |-> Slice(s, a, a + ra), repl |-> Slice(s, a, a + ra)]
        ELSE NoMatch

\* '''(.*?)''' and ''(.*?)'' (lines 138 and 139), q quotes on each side; the
\* dot does not match a newline
quote_pattern(s, p, q) ==
    LET quotes == [k \in 1..q |-> "'"]
        a == p + q
        ends == {e \in Occurrences(s, a, quotes) : e <= a + Run(s, a, "dot")}
    IN  IF StartsWith(s, p, quotes) /\ ends # {}
        THEN [ok |-> TRUE, end |-> LazyEnd(ends) + q,
              group |-> Slice(s, a, LazyEnd(ends)), repl |-> Slice(s, a, LazyEnd(ends))]
        ELSE NoMatch

\* $ without re.MULTILINE at offset i
AtEnd(s, i) == i = Len(s) \/ (i = Len(s) - 1 /\ s[i + 1] = "\n")

\* (.*?)\n(?=\||$) at offset v, with re.DOTALL: the offsets of the "\n"
ParamValueEnds(s, v) ==
    {e \in Occurrences(s, v, <<"\n">>) :
        StartsWith(s, e + 1, <<"|">>) \/ AtEnd(s, e + 1)}

\* \|\s*(\w+)\s*=\s*(.*?)\n(?=\||$) with re.DOTALL (line 96); group is
\* <<group(1), group(2)>>
param_pattern(s, p) ==
    LET a  == p + 1 + Run(s, p + 1, "space")
        w  == Run(s, a, "word")
        eq == a + w + Run(s, a + w, "space")
        \* \s* after "=" is greedy: the longest run that lets the rest match
        ks == {k \in 0..Run(s, eq + 1, "space") : ParamValueEnds(s, eq + 1 + k) # {}}
        v  == eq + 1 + Max(ks)
        e  == LazyEnd(ParamValueEnds(s, v))
    IN  IF /\ StartsWith(s, p, <<"|">>)
           /\ w >= 1
           /\ StartsWith(s, eq, <<"=">>)
           /\ ks # {}
        THEN [ok |-> TRUE, end |-> e + 1,
              group |-> <<Slice(s, a, a + w), Slice(s, v, e)>>, repl |-> << >>]
        ELSE NoMatch

\* \{\{Infobox(.*?)\n\}\} with re.DOTALL | re.IGNORECASE (line 91)
infobox_pattern(s, p) ==
    LET ends == Occurrences(s, p + 9, <<"\n", "}", "}">>)
    IN  IF StartsWithFold(s, p, <<"{", "{", "I", "n", "f", "o", "b", "o", "x">>) /\ ends # {}
        THEN [ok |-> TRUE, end |-> LazyEnd(ends) + 3,
              group |-> Slice(s, p + 9, LazyEnd(ends)), repl |-> << >>]
        ELSE NoMatch

PatternAt(s, p, pat) ==
    CASE pat = "template" -> template_pattern(s, p)
      [] pat = "file"     -> file_pattern(s, p)
      [] pat = "link"     -> link_text_pattern(s, p)
      [] pat = "bold"     -> quote_pattern(s, p, 3)
      [] pat = "italic"   -> quote_pattern(s, p, 2)
      [] pat = "param"    -> param_pattern(s, p)
      [] pat = "infobox"  -> infobox_pattern(s, p)

\* pattern.finditer(s): the matches, each with its start, scanning from pos
\* (no pattern here matches the empty string)
RECURSIVE FindIter(_, _, _)
FindIter(s, pos, pat) ==
    IF pos >= Len(s) THEN << >>
    ELSE LET m == PatternAt(s, pos, pat)
         IN  IF m.ok
             THEN <<[start |-> pos, end |-> m.end, group |-> m.group]>>
                      \o FindIter(s, m.end, pat)
             ELSE FindIter(s, pos + 1, pat)

\* re.sub(pattern, repl, s), scanning from pos
RECURSIVE Sub(_, _, _)
Sub(s, pos, pat) ==
    IF pos >= Len(s) THEN << >>
    ELSE LET m == PatternAt(s, pos, pat)
         IN  IF m.ok
             THEN m.repl \o Sub(s, m.end, pat)
             ELSE <<s[pos + 1]>> \o Sub(s, pos + 1, pat)

----------------------------------------------------------------------------
(* parse_templates, parse_infobox, clean_wikitext *)

\* lines 171-172
parse_templates(s) ==
    LET found == FindIter(s, 0, "template")
    IN  [k \in 1..Len(found) |-> Strip(found[k].group)]

\* a dict: the function from its keys to their values
EmptyDict == [k \in {} |-> << >>]
Put(d, key, value) ==
    [k \in DOMAIN d \cup {key} |-> IF k = key THEN value ELSE d[k]]

\* lines 97-101: the dict after the loop over the parameter matches
RECURSIVE FillParams(_, _)
FillParams(found, params) ==
    IF found = << >> THEN params
    ELSE FillParams(Tail(found),
                    Put(params, Strip(found[1].group[1]), Strip(found[1].group[2])))

\* lines 91-102
parse_infobox(s) ==
    LET match == FindIter(s, 0, "infobox")
    IN  IF match = << >> THEN EmptyDict
        ELSE FillParams(FindIter(match[1].group, 0, "param"), EmptyDict)

\* lines 135-140
clean_wikitext(s) ==
    LET t1 == Sub(s, 0, "template")
        t2 == Sub(t1, 0, "file")
        t3 == Sub(t2, 0, "link")
        t4 == Sub(t3, 0, "bold")
        t5 == Sub(t4, 0, "italic")
    IN  Strip(t5)

ParseTemplates ==
    /\ pc = "parse_templates"
    /\ result' = parse_templates(wikitext)
    /\ pc' = "done"
    /\ UNCHANGED wikitext
    /\ UNCHANGED sectionVars
    /\ UNCHANGED retryVars

ParseInfobox ==
    /\ pc = "parse_infobox"
    /\ result' = parse_infobox(wikitext)
    /\ pc' = "done"
    /\ UNCHANGED wikitext
    /\ UNCHANGED sectionVars
    /\ UNCHANGED retryVars

\* clean_wikitext(wikitext); result collects the successive return values
Clean ==
    /\ pc = "clean_wikitext"
    /\ result' = <<clean_wikitext(wikitext)>>
    /\ pc' = "cleaned"
    /\ UNCHANGED wikitext
    /\ UNCHANGED sectionVars
    /\ UNCHANGED retryVars

\* clean_wikitext applied to the text it returned
CleanAgain ==
    /\ pc = "cleaned"
    /\ result' = Append(result, clean_wikitext(result[1]))
    /\ pc' = "recleaned"
    /\ UNCHANGED wikitext
    /\ UNCHANGED sectionVars
    /\ UNCHANGED retryVars

\* the generated texts of parse_templates
NestedExample == <<"{", "{", "a", " ", "{", "{", "b", "}", "}", " ", "c", "}", "}">>
TplTexts == SeqsOf({"{", "}", "a", " "}, 0, MaxTplLen) \cup {NestedExample}

InitTemplates ==
    /\ pc = "parse_templates"
    /\ wikitext \in TplTexts
    /\ result = << >>
    /\ NoSections
    /\ NoRetry

SpecTemplates == InitTemplates /\ [][ParseTemplates]_vars

\* the generated infobox documents: a header line, parameter lines, a closing
InfoboxHeaders == {<<"{", "{", "I", "n", "f", "o", "b", "o", "x", " ", "f", "o", "o">>,
                   <<"{", "{", "i", "n", "f", "o", "b", "o", "x">>}
ParamLines ==
    {[name |-> <<"n", "a", "m", "e">>, value |-> <<"B", "a", "r">>,
      text |-> <<"|", " ", "n", "a", "m", "e", " ", "=", " ", "B", "a", "r">>],
     [name |-> <<"p", "o", "p">>, value |-> <<"1", "0", "0">>,
      text |-> <<"|", " ", "p", "o", "p", " ", "=", " ", "1", "0", "0">>],
     [name |-> <<"n", "a", "m", "e">>, value |-> <<"x">>,
      text |-> <<"|", "n", "a", "m", "e", "=", "x">>]}
ClosingLine == <<"\n", "}", "}">>
InfoboxClosings == {ClosingLine, <<" ", "}", "}">>}

InfoboxDoc(header, ls, closing) ==
    Join(<<header>> \o [k \in 1..Len(ls) |-> ls[k].text]) \o closing

InfoboxExample ==
    InfoboxDoc(<<"{", "{", "I", "n", "f", "o", "b", "o", "x", " ", "f", "o", "o">>,
               <<[name |-> <<"n", "a", "m", "e">>, value |-> <<"B", "a", "r">>,
                  text |-> <<"|", " ", "n", "a", "m", "e", " ", "=", " ", "B", "a", "r">>],
                 [name |-> <<"p", "o", "p">>, value |-> <<"1", "0", "0">>,
                  text |-> <<"|", " ", "p", "o", "p", " ", "=", " ", "1", "0", "0">>]>>,
               ClosingLine)

InfoboxDocs ==
    {InfoboxDoc(h, ls, c) :
        h \in InfoboxHeaders, ls \in SeqsOf(ParamLines, 1, MaxParams), c \in InfoboxClosings}

InitInfobox ==
    /\ pc = "parse_infobox"
    /\ wikitext \in InfoboxDocs
    /\ result = << >>
    /\ NoSections
    /\ NoRetry

SpecInfobox == InitInfobox /\ [][ParseInfobox]_vars

\* the generated texts of clean_wikitext: up to MaxTokens tokens, and examples
CleanTokens == {<<"{">>, <<"}", "}">>, <<"[", "[">>, <<"]", "]">>, <<"|">>,
                <<"'", "'">>, <<"'", "'", "'">>, <<"a">>, <<" ">>,
                <<"F", "i", "l", "e", ":">>}

\* '''Bold''' and ''italic'' [[Link|shown]] {{tmpl}}
CleanExample ==
    <<"'", "'", "'", "B", "o", "l", "d", "'", "'", "'", " ", "a", "n", "d", " ",
      "'", "'", "i", "t", "a", "l", "i", "c", "'", "'", " ",
      "[", "[", "L", "i", "n", "k", "|", "s", "h", "o", "w", "n", "]", "]", " ",
      "{", "{", "t", "m", "p", "l", "}", "}">>

\* {''''{}}
SplitBraces == <<"{", "'", "'", "'", "'", "{", "}", "}">>

CleanTexts ==
    {Concat(ts) : ts \in SeqsOf(CleanTokens, 0, MaxTokens)}
        \cup {CleanExample, SplitBraces}

InitClean ==
    /\ pc = "clean_wikitext"
    /\ wikitext \in CleanTexts
    /\ result = << >>
    /\ NoSections
    /\ NoRetry

NextClean == Clean \/ CleanAgain

SpecClean == InitClean /\ [][NextClean]_vars

----------------------------------------------------------------------------
(* Properties of parse_infobox, parse_templates and clean_wikitext *)

\* the mapping of a list of parameter lines, a later line overwriting an
\* earlier line of the same name
RECURSIVE ParamsOf(_, _)
ParamsOf(ls, params) ==
    IF ls = << >> THEN params
    ELSE ParamsOf(Tail(ls), Put(params, ls[1].name, ls[1].value))

\* C2 (as claimed): for an infobox block of parameter lines closed by a line
\* "}}", parse_infobox returns every parameter of the block, the last line
\* before the closing "\n}}" included
C2_EveryParameter ==
    pc = "done" =>
        \A h \in InfoboxHeaders, ls \in SeqsOf(ParamLines, 1, MaxParams) :
            wikitext = InfoboxDoc(h, ls, ClosingLine) =>
                result = ParamsOf(ls, EmptyDict)

\* C3 (as claimed): "{{a {{b}} c}}" yields the two entries "a {{b" and "c"
C3_AsClaimed ==
    (pc = "done" /\ wikitext = NestedExample) =>
        result = <<<<"a", " ", "{", "{", "b">>, <<"c">>>>

\* C3 (amended): "{{a {{b}} c}}" yields the single entry "a {{b"; the residue
\* " c}}" has no opening "{{" and yields no entry; no entry of any text
\* contains "}}"
C3_NestedTruncated ==
    pc = "done" =>
        /\ wikitext = NestedExample => result = <<<<"a", " ", "{", "{", "b">>>>
        /\ \A k \in 1..Len(result) : Occurrences(result[k], 0, <<"}", "}">>) = {}

C3_Witness ==
    /\ pc = "done"
    /\ wikitext = NestedExample
    /\ Len(result) = 1

CleanPatterns == {"template", "file", "link", "bold", "italic"}

\* the spans of the text that the patterns of clean_wikitext match
MarkupSpans(s) ==
    UNION {{<<FindIter(s, 0, pat)[k].start, FindIter(s, 0, pat)[k].end>> :
              k \in 1..Len(FindIter(s, 0, pat))} : pat \in CleanPatterns}

\* no construct of the text lies inside or across another one
NoNested(s) ==
    \A a, b \in MarkupSpans(s) : a = b \/ a[2] <= b[1] \/ b[2] <= a[1]

\* no pattern of clean_wikitext matches anywhere in the text
NoMarkup(s) == MarkupSpans(s) = {}

----------------------------------------------------------------------------
(* retry(max_attempts, delay, backoff, exceptions) of utils.py: one call of *)
(* the wrapper around a function func                                       *)

\* what one invocation of func does: it returns a value, raises an exception
\* of a class listed in `exceptions`, or raises one that is not listed
Outcomes ==
    [kind : {"return"}, value : {"r1", "r2"}]
        \cup [kind : {"listed"}, value : {"E1", "E2"}]
        \cup [kind : {"unlisted"}, value : {"U1"}]

Returned(value) == [kind |-> "return", value |-> value]
Raised(value) == [kind |-> "raise", value |-> value]

\* line 41: if attempts >= max_attempts
GiveUpLate(n, max) == n > max
GiveUp(n, max) == n >= max

\* lines 34-35
Call ==
    /\ pc = "wrapper"
    /\ attempts' = 0
    /\ current_delay' = delay
    /\ pc' = "while"
    /\ UNCHANGED <<wikitext, result, max_attempts, delay, backoff, trace>>
    /\ UNCHANGED sectionVars

\* lines 36-42: the loop test holds, func is invoked, and its outcome is
\* handled up to the return, the raise or the start of the sleep
Invoke ==
    /\ pc = "while"
    /\ attempts < max_attempts
    /\ \E outcome \in Outcomes :
        /\ trace' = Append(trace, outcome)
        /\ CASE outcome.kind = "return" ->
                  /\ result' = Returned(outcome.value)
                  /\ pc' = "done"
                  /\ UNCHANGED attempts
             [] outcome.kind = "unlisted" ->
                  /\ result' = Raised(outcome.value)
                  /\ pc' = "done"
                  /\ UNCHANGED attempts
             [] outcome.kind = "listed" ->
                  /\ attempts' = attempts + 1
                  /\ IF GiveUp(attempts + 1, max_attempts)
                     THEN result' = Raised(outcome.value) /\ pc' = "done"
                     ELSE pc' = "sleep" /\ UNCHANGED result
    /\ UNCHANGED <<wikitext, max_attempts, delay, backoff, current_delay>>
    /\ UNCHANGED sectionVars

\* lines 43-44: time.sleep(current_delay); current_delay *= backoff
Sleep ==
    /\ pc = "sleep"
    /\ trace' = Append(trace, [kind |-> "sleep", value |-> current_delay])
    /\ current_delay' = current_delay * backoff
    /\ pc' = "while"
    /\ UNCHANGED <<wikitext, result, max_attempts, delay, backoff, attempts>>
    /\ UNCHANGED sectionVars

\* line 36: the loop test fails and the wrapper falls off its end, which
\* returns None
LoopEnds ==
    /\ pc = "while"
    /\ ~(attempts < max_attempts)
    /\ result' = Returned("None")
    /\ pc' = "done"
    /\ UNCHANGED <<wikitext, max_attempts, delay, backoff, attempts, current_delay, trace>>
    /\ UNCHANGED sectionVars

InitRetry ==
    /\ pc = "wrapper"
    /\ wikitext = << >>
    /\ result = << >>
    /\ NoSections
    /\ max_attempts \in 0..MaxAttempts
    /\ delay \in {1, 2}
    /\ backoff \in {1, 2}
    /\ attempts = 0
    /\ current_delay = 0
    /\ trace = << >>

NextRetry == Call \/ Invoke \/ Sleep \/ LoopEnds

SpecRetry == InitRetry /\ [][NextRetry]_vars

----------------------------------------------------------------------------
(* Properties of retry *)

IsInvocation(event) == event.kind # "sleep"

Invocations == SelectSeq(trace, IsInvocation)

\* C10: with max_attempts >= 1 the function is invoked at most max_attempts
\* times; every invocation but the last raised a listed exception; a return
\* or an unlisted exception ends the call at once with that value or
\* exception; a sleep has an invocation before it and, once the call is
\* over, after it; max_attempts listed exceptions end the call with the last
\* of them
C10_Retry ==
    max_attempts >= 1 =>
        /\ Len(Invocations) <= max_attempts
        /\ \A k \in 1..(Len(Invocations) - 1) : Invocations[k].kind = "listed"
        /\ \A k \in 1..Len(trace) :
               /\ trace[k].kind \in {"return", "unlisted"} =>
                      /\ k = Len(trace)
                      /\ pc = "done"
                      /\ result = (IF trace[k].kind = "return"
                                   THEN Returned(trace[k].value)
                                   ELSE Raised(trace[k].value))
               /\ trace[k].kind = "sleep" =>
                      /\ k > 1
                      /\ IsInvocation(trace[k - 1])
                      /\ k < Len(trace) => IsInvocation(trace[k + 1])
                      /\ pc = "done" => k < Len(trace)
        /\ (pc = "done" /\ Invocations[Len(Invocations)].kind = "listed") =>
               /\ Len(Invocations) = max_attempts
               /\ result = Raised(Invocations[max_attempts].value)
        /\ pc = "done" => Len(Invocations) >= 1

C10_Witness ==
    /\ pc = "done"
    /\ max_attempts = 3
    /\ Len(Invocations) = 3
    /\ Invocations[2].value = "E1"
    /\ result = Raised("E2")
    /\ Len(trace) = 5

----------------------------------------------------------------------------
(* The stack of parse_sections *)

\* C11: once a heading has been handled the stack is not empty, its top is
\* the section of the last handled heading and its levels, each in 2..6,
\* increase strictly from bottom to top; at the end of a document with a
\* heading, the text after the last heading is appended after a "\n" to the
\* content of the last heading's section, and no Section is created for it
C11_StackAndTrailingText ==
    (pc \in {"loop", "done"} /\ hidx >= 1) =>
        /\ stack # << >>
        /\ stack[Len(stack)][2] = created[hidx]
        /\ \A k \in 1..Len(stack) : stack[k][1] \in 2..6
        /\ \A k \in 1..(Len(stack) - 1) : stack[k][1] < stack[k + 1][1]
        /\ pc = "done" =>
               /\ Len(nodes) = created[hidx]
               /\ \A i \in 2..Len(nodes) :
                      ~(nodes[i].parent = 0 /\ nodes[i].title = Introduction)
               /\ nodes[created[hidx]].content =
                      (IF headings[hidx].end < Len(wikitext)
                       THEN <<"\n">> \o Strip(Slice(wikitext, headings[hidx].end, Len(wikitext)))
                       ELSE << >>)

C11_Witness ==
    /\ pc = "done"
    /\ hidx >= 2
    /\ Len(stack) >= 2
    /\ headings[hidx].end < Len(wikitext)
    /\ Len(nodes[created[hidx]].content) >= 2
    /\ nodes[created[hidx]].content[1] = "\n"

====
